---- MODULE Spec2Model ----
(***************************************************************************)
(* Keyed real-time session coordination of AItinerary: the three Durable   *)
(* Objects NotificationManager (push-stream fan-out), CollaborativeItinerary*)
(* (multi-user editing over WebSockets) and Chat (conversation binding and *)
(* message log), modelled from their TypeScript sources.                   *)
(***************************************************************************)
EXTENDS Integers, Sequences, FiniteSets, TLC

(***************************************************************************)
(* Bounds of the model and the small input sets.                           *)
(***************************************************************************)
MaxFrames == 2
MaxMsgs == 2
MaxReqs == 2
MaxTurns == 1
MaxClock == 1
MaxFold == 3

Users == {"uA", "uB"}
NoUser == "none"
SSEOrder == <<"s1", "s2", "s3">>
SSE == {SSEOrder[i] : i \in 1..Len(SSEOrder)}
Payloads == {"p1"}
Keepalive == "keepalive"

\* CollaborativeItinerary: itinerary keys, WebSocket objects, object instances
Keys == {"trip1"}
WSOrder == <<"w1", "w2">>
WS == {WSOrder[i] : i \in 1..Len(WSOrder)}
Http == "http"
Requesters == WS \cup {Http}
Insts == Keys \cup Requesters
NoInst == "none"
VoteValues == {"up", "down", "neutral"}
Cursors == {"c1"}
NoCursor == "none"

\* Chat: conversation ids, tokens, request and turn slots
Convs == {"c1", "c2"}
NoConv == "none"
Tokens == {"tA", "bad"}
NoToken == "none"
Placeholder == "New conversation"
Reqs == 1..MaxReqs
Turns == 1..MaxTurns

VARIABLES
  \* ---- NotificationManager (one instance per user; the instance of user u
  \*      holds only the key u of its map, so one map stands for all of them)
  connections,   \* this.connections: userId -> array of SSE connections
  nmHasKey,      \* whether the Map holds the key (an emptied array may stay)
  sseState,      \* per stream: "unused" | "open" | "aborted"
  sseUser,       \* connection.userId
  sseBroken,     \* the writer rejects writes (peer gone, stream errored)
  sseTimer,      \* the keepalive interval is armed
  sseOut,        \* frames written successfully to the stream
  notifyCall,    \* the /notify request in flight (Promise.all of the writes)
  lastNotify,    \* the response of the last /notify request
  \* ---- CollaborativeItinerary, one instance per itinerary key
  hydr,          \* per instance: "cold" | "loading" (constructor) | "ready"
  itineraryData, \* this.itineraryData of the instance (NullDoc when null)
  stored,        \* ctx.storage "itineraryData" of the instance
  collaborators, \* this.collaborators: userId -> presence
  editHistory,   \* this.editHistory; an entry is named by its timestamp (the
                 \* history is only ever appended to and trimmed)
  wsState,       \* per WebSocket: "unused" | "open" | "broken" (readyState
                 \* OPEN, send throws) | "closing" | "closed"
  wsInst,        \* the instance that accepted the WebSocket
  wsKey,         \* the itinerary key of the URL the WebSocket connected to
  sessUser,      \* this.sessions: WebSocket -> user id (NoUser: no entry)
  inbox,         \* per WebSocket: timestamps of the `edit` broadcasts received
  sent,          \* the messages the last handler sent
  lastOp,        \* the last handler that ran, and the phase it ran in
  now,           \* Date.now() as stamped on edits: one tick per edit handled
  nMsgs,         \* edit, vote and cursor messages handled so far
  votesCast,     \* history: per key and activity, the vote each user sent last
  \* ---- Chat, one instance and the D1 tables it uses
  messages,      \* this.messages, the in-memory log
  chStore,       \* ctx.storage: conversationId, userToken, userId
  dbMessages,    \* D1 chat_messages, the rows in rowid order
  dbConvs,       \* D1 chat_conversations: id -> header row
  dbClock,       \* datetime('now') of D1, in seconds
  req,           \* the onRequest calls: position and locals of each
  turn,          \* the onChatMessage calls: position and locals of each
  titleJob,      \* the generateConversationTitle call in the background
  \* ---- the edit operations applied on their own, as a fold over actions
  fold           \* the document before, the action applied, the document after

nmVars == <<connections, nmHasKey, sseState, sseUser, sseBroken, sseTimer,
            sseOut, notifyCall, lastNotify>>

ciVars == <<hydr, itineraryData, stored, collaborators, editHistory, wsState,
            wsInst, wsKey, sessUser, inbox, sent, lastOp, now, nMsgs,
            votesCast>>

chVars == <<messages, chStore, dbMessages, dbConvs, dbClock, req, turn,
            titleJob>>

vars == <<connections, nmHasKey, sseState, sseUser, sseBroken, sseTimer,
          sseOut, notifyCall, lastNotify,
          hydr, itineraryData, stored, collaborators, editHistory, wsState,
          wsInst, wsKey, sessUser, inbox, sent, lastOp, now, nMsgs, votesCast,
          messages, chStore, dbMessages, dbConvs, dbClock, req, turn, titleJob,
          fold>>

(***************************************************************************)
(* Helpers on arrays.                                                      *)
(***************************************************************************)
Range(s) == {s[i] : i \in 1..Len(s)}

\* Array.prototype.indexOf followed by splice(index, 1): drops the first
\* occurrence of x, leaves the array alone when x is absent.
RECURSIVE SpliceOut(_, _)
SpliceOut(s, x) ==
  IF s = <<>> THEN <<>>
  ELSE IF Head(s) = x THEN Tail(s)
  ELSE <<Head(s)>> \o SpliceOut(Tail(s), x)

IdleCall == [phase |-> "idle", target |-> NoUser, data |-> "none",
             pending |-> {}, attempted |-> {}, ok |-> {}, alias |-> FALSE]
NoResponse == [status |-> 0, delivered |-> 0, sent |-> 0]

RECURSIVE SumLen(_, _)
SumLen(f, S) ==
  IF S = {} THEN 0
  ELSE LET x == CHOOSE y \in S : TRUE IN Len(f[x]) + SumLen(f, S \ {x})

\* The next WebSocket/stream object is a fresh one: ids are handed out in order.
NextUnused(order, used) ==
  order[CHOOSE i \in 1..Len(order) :
          /\ order[i] \notin used
          /\ \A j \in 1..(i - 1) : order[j] \in used]

(***************************************************************************)
(* NotificationManager                                                     *)
(***************************************************************************)
NMInit ==
  /\ connections = [u \in Users |-> <<>>]
  /\ nmHasKey = [u \in Users |-> FALSE]
  /\ sseState = [c \in SSE |-> "unused"]
  /\ sseUser = [c \in SSE |-> NoUser]
  /\ sseBroken = [c \in SSE |-> FALSE]
  /\ sseTimer = [c \in SSE |-> FALSE]
  /\ sseOut = [c \in SSE |-> <<>>]
  /\ notifyCall = IdleCall
  /\ lastNotify = NoResponse

\* the model stops writing frames after MaxFrames of them, over all streams
FramesWritten == SumLen(sseOut, SSE)

SSEUsed == {c \in SSE : sseState[c] # "unused"}

\* GET /subscribe?userId=u: register the writer, arm the keepalive interval.
Subscribe(u) ==
  /\ SSEUsed # SSE
  /\ LET c == NextUnused(SSEOrder, SSEUsed) IN
     /\ connections' = [connections EXCEPT ![u] = Append(@, c)]
     /\ nmHasKey' = [nmHasKey EXCEPT ![u] = TRUE]
     /\ sseState' = [sseState EXCEPT ![c] = "open"]
     /\ sseUser' = [sseUser EXCEPT ![c] = u]
     /\ sseTimer' = [sseTimer EXCEPT ![c] = TRUE]
     \* a subscribe that finds no key creates a new array: the array a running
     \* /notify captured is then no longer the one in the map
     /\ notifyCall' = IF notifyCall.phase = "writing" /\ notifyCall.target = u
                         /\ ~nmHasKey[u]
                      THEN [notifyCall EXCEPT !.alias = FALSE]
                      ELSE notifyCall
  /\ UNCHANGED <<sseBroken, sseOut, lastNotify>>

\* The 30 s keepalive interval fires.
KeepaliveTick(c) ==
  /\ sseTimer[c]
  /\ IF sseBroken[c] \/ sseState[c] # "open"
     THEN /\ sseTimer' = [sseTimer EXCEPT ![c] = FALSE]
          /\ UNCHANGED sseOut
     ELSE /\ FramesWritten < MaxFrames
          /\ sseOut' = [sseOut EXCEPT ![c] = Append(@, Keepalive)]
          /\ UNCHANGED sseTimer
  /\ UNCHANGED <<connections, nmHasKey, sseState, sseUser, sseBroken,
                 notifyCall, lastNotify>>

\* An abort listener that closes the writer but leaves it in the user's array.
AbortKeepsWriter(c) ==
  /\ sseState[c] = "open"
  /\ sseTimer' = [sseTimer EXCEPT ![c] = FALSE]
  /\ sseState' = [sseState EXCEPT ![c] = "aborted"]
  /\ sseUser' = [sseUser EXCEPT ![c] = NoUser]
  /\ sseBroken' = [sseBroken EXCEPT ![c] = FALSE]
  /\ UNCHANGED <<connections, nmHasKey, sseOut, notifyCall, lastNotify>>

\* request.signal 'abort': clear the interval, deregister, close the writer.
\* The connection object is unreachable afterwards: its fields are dropped.
Abort(c) ==
  /\ sseState[c] = "open"
  /\ LET u == sseUser[c]
         rest == SpliceOut(connections[u], c)
     IN /\ connections' = [connections EXCEPT ![u] = rest]
        /\ nmHasKey' = [nmHasKey EXCEPT ![u] = IF rest = <<>> THEN FALSE ELSE @]
  /\ sseTimer' = [sseTimer EXCEPT ![c] = FALSE]
  /\ sseState' = [sseState EXCEPT ![c] = "aborted"]
  /\ sseUser' = [sseUser EXCEPT ![c] = NoUser]
  /\ sseBroken' = [sseBroken EXCEPT ![c] = FALSE]
  /\ UNCHANGED <<sseOut, notifyCall, lastNotify>>

\* The peer goes away without an abort signal: later writes reject.
BreakStream(c) ==
  /\ sseState[c] = "open"
  /\ ~sseBroken[c]
  /\ sseBroken' = [sseBroken EXCEPT ![c] = TRUE]
  /\ UNCHANGED <<connections, nmHasKey, sseState, sseUser, sseTimer, sseOut,
                 notifyCall, lastNotify>>

\* A fan-out that walks the whole map instead of the target's array.
NotifyTargetsAll(target) == UNION {Range(connections[u]) : u \in Users}

\* The streams a /notify for `target` starts a write on.
NotifyTargets(target) == Range(connections[target])

\* fetch: a request without ?userId= is answered 400 before the path is looked
\* at; POST /notify captures the target's array and starts one write per entry.
NotifyFetch(q, target, data) ==
  /\ notifyCall.phase = "idle"
  /\ IF q = NoUser
     THEN /\ lastNotify' = [NoResponse EXCEPT !.status = 400]
          /\ UNCHANGED notifyCall
     ELSE LET to == NotifyTargets(target) IN
          /\ FramesWritten + Cardinality(to) <= MaxFrames
          /\ IF to = {}
             THEN /\ lastNotify' = [status |-> 200, delivered |-> 0,
                                    sent |-> 0]
                  /\ UNCHANGED notifyCall
             ELSE /\ notifyCall' = [phase |-> "writing", target |-> target,
                                    data |-> data, pending |-> to,
                                    attempted |-> to, ok |-> {}, alias |-> TRUE]
                  /\ UNCHANGED lastNotify
  /\ UNCHANGED <<connections, nmHasKey, sseState, sseUser, sseBroken, sseTimer,
                 sseOut>>

\* splice(index) without a count: the failed connection and all after it go.
DropFailedAndLater(userConns, conn) ==
  IF \E k \in 1..Len(userConns) : userConns[k] = conn
  THEN SubSeq(userConns, 1,
              (CHOOSE k \in 1..Len(userConns) :
                 userConns[k] = conn /\ \A j \in 1..(k - 1) : userConns[j] # conn) - 1)
  ELSE userConns

\* The catch of a /notify write: userConns.indexOf(conn), splice(index, 1).
DropFailed(userConns, conn) == SpliceOut(userConns, conn)

\* One conn.writer.write settles: resolved, or rejected and the connection is
\* spliced out of the user's current array.
NotifyWriteSettle(c) ==
  /\ notifyCall.phase = "writing"
  /\ c \in notifyCall.pending
  /\ \E rejected \in (IF sseState[c] = "aborted" THEN BOOLEAN ELSE {sseBroken[c]}) :
     IF rejected
     THEN /\ connections' = [connections EXCEPT
                               ![notifyCall.target] = DropFailed(@, c)]
          /\ notifyCall' = [notifyCall EXCEPT !.pending = @ \ {c}]
          /\ UNCHANGED sseOut
     ELSE /\ sseOut' = [sseOut EXCEPT ![c] = Append(@, notifyCall.data)]
          /\ notifyCall' = [notifyCall EXCEPT !.pending = @ \ {c},
                                              !.ok = @ \cup {c}]
          /\ UNCHANGED connections
  /\ UNCHANGED <<nmHasKey, sseState, sseUser, sseBroken, sseTimer, lastNotify>>

\* Promise.all resolved: respond {success, sent: connections.length}, the
\* length of the captured array as it is now.
NotifyReturn ==
  /\ notifyCall.phase = "writing"
  /\ notifyCall.pending = {}
  /\ lastNotify' = [status |-> 200,
                    delivered |-> Cardinality(notifyCall.ok),
                    sent |-> IF notifyCall.alias /\ nmHasKey[notifyCall.target]
                             THEN Len(connections[notifyCall.target]) ELSE 0]
  /\ notifyCall' = IdleCall
  /\ UNCHANGED <<connections, nmHasKey, sseState, sseUser, sseBroken, sseTimer,
                 sseOut>>

\* The other actor classes are separate objects: a step of one leaves them alone.
NMOnly == UNCHANGED <<ciVars, chVars, fold>>

NMNext ==
  \/ \E u \in Users : Subscribe(u) /\ NMOnly
  \/ \E c \in SSE : KeepaliveTick(c) /\ NMOnly
  \/ \E c \in SSE : Abort(c) /\ NMOnly
  \/ \E c \in SSE : BreakStream(c) /\ NMOnly
  \/ \E q \in Users \cup {NoUser}, t \in Users, d \in Payloads :
        NotifyFetch(q, t, d) /\ NMOnly
  \/ \E c \in SSE : NotifyWriteSettle(c) /\ NMOnly
  \/ NotifyReturn /\ NMOnly

(***************************************************************************)
(* CollaborativeItinerary: the document and the edit operations            *)
(***************************************************************************)
NullDoc == [null |-> TRUE]
NoVotes == <<>>
Activity(id) == [id |-> id, title |-> "t0", votes |-> NoVotes]
Doc1 == [title |-> "t0",
         days |-> << [dayNumber |-> 1, activities |-> <<Activity("X")>>],
                     [dayNumber |-> 2, activities |-> <<>>] >>]
DocInputs == {Doc1}
ActIds == {"X", "Y"}

\* The actions a client may put in an `edit` message.
EditInputs ==
  { [type |-> "activity-add",
     data |-> [dayNumber |-> 2, activity |-> Activity("Y")]],
    [type |-> "activity-delete", data |-> [activityId |-> "X"]],
    [type |-> "itinerary-update", data |-> [title |-> "t1"]],
    [type |-> "itinerary-update", data |-> [days |-> <<>>]] }

\* { ...a, ...u }
Merge(a, u) ==
  [f \in (DOMAIN a) \cup (DOMAIN u) |-> IF f \in DOMAIN u THEN u[f] ELSE a[f]]

\* Array.prototype.findIndex: the first index that satisfies P, 0 for -1.
FirstIndex(s, P(_)) ==
  IF \E i \in 1..Len(s) : P(s[i])
  THEN CHOOSE i \in 1..Len(s) : P(s[i]) /\ \A j \in 1..(i - 1) : ~P(s[j])
  ELSE 0

RemoveAt(s, i) == [j \in 1..(Len(s) - 1) |-> IF j < i THEN s[j] ELSE s[j + 1]]

HasActivity(day, id) == \E j \in 1..Len(day.activities) : day.activities[j].id = id

addActivity(doc, data) ==
  IF doc = NullDoc THEN doc
  ELSE LET IsDay(d) == d.dayNumber = data.dayNumber
           i == FirstIndex(doc.days, IsDay)
       IN IF i = 0 THEN doc
          ELSE [doc EXCEPT !.days[i].activities = Append(@, data.activity)]

updateActivity(doc, data) ==
  IF doc = NullDoc THEN doc
  ELSE LET Holds(d) == HasActivity(d, data.activityId)
           IsAct(a) == a.id = data.activityId
           i == FirstIndex(doc.days, Holds)
       IN IF i = 0 THEN doc
          ELSE LET j == FirstIndex(doc.days[i].activities, IsAct)
               IN [doc EXCEPT !.days[i].activities[j] = Merge(@, data.updates)]

\* A delete that removes every activity with the id, in every day.
deleteActivityEverywhere(doc, activityId) ==
  IF doc = NullDoc THEN doc
  ELSE LET Other(a) == a.id # activityId
       IN [doc EXCEPT !.days = [d \in DOMAIN doc.days |->
                                  [doc.days[d] EXCEPT !.activities =
                                     SelectSeq(@, Other)]]]

deleteActivity(doc, activityId) ==
  IF doc = NullDoc THEN doc
  ELSE LET Holds(d) == HasActivity(d, activityId)
           IsAct(a) == a.id = activityId
           i == FirstIndex(doc.days, Holds)
       IN IF i = 0 THEN doc
          ELSE LET j == FirstIndex(doc.days[i].activities, IsAct)
               IN [doc EXCEPT !.days[i].activities = RemoveAt(@, j)]

updateItinerary(doc, data) ==
  IF doc = NullDoc THEN doc ELSE Merge(doc, data)

\* A switch that also records the editor in the document.
ApplyEditStamping(doc, action) ==
  LET doc1 == CASE action.type = "activity-add" -> addActivity(doc, action.data)
                [] action.type = "activity-update" ->
                     updateActivity(doc, action.data)
                [] action.type = "activity-delete" ->
                     deleteActivity(doc, action.data.activityId)
                [] action.type = "itinerary-update" ->
                     updateItinerary(doc, action.data)
                [] OTHER -> doc
  IN IF doc1 = NullDoc THEN doc1
     ELSE Merge(doc1, [lastEditedBy |-> action.userId])

\* The switch of handleEdit.
ApplyEdit(doc, action) ==
  CASE action.type = "activity-add" -> addActivity(doc, action.data)
    [] action.type = "activity-update" -> updateActivity(doc, action.data)
    [] action.type = "activity-delete" -> deleteActivity(doc, action.data.activityId)
    [] action.type = "itinerary-update" -> updateItinerary(doc, action.data)
    [] OTHER -> doc

\* handleVote's scan: the first day that holds the activity, 0 when none does.
VoteDay(doc, activityId) ==
  IF doc = NullDoc THEN 0
  ELSE LET Holds(d) == HasActivity(d, activityId) IN FirstIndex(doc.days, Holds)

\* activity.votes[user.id] = vote on the first activity with that id.
SetVote(doc, activityId, user, vote) ==
  LET i == VoteDay(doc, activityId)
      IsAct(a) == a.id = activityId
  IN IF i = 0 THEN doc
     ELSE LET j == FirstIndex(doc.days[i].activities, IsAct)
          IN [doc EXCEPT !.days[i].activities[j].votes =
                [u \in (DOMAIN @) \cup {user} |-> IF u = user THEN vote ELSE @[u]]]

VotesOf(doc, activityId) ==
  LET i == VoteDay(doc, activityId)
      IsAct(a) == a.id = activityId
  IN doc.days[i].activities[FirstIndex(doc.days[i].activities, IsAct)].votes

calculateVotes(votes) ==
  [v \in VoteValues |-> Cardinality({u \in DOMAIN votes : votes[u] = v})]

(***************************************************************************)
(* CollaborativeItinerary: the actor                                       *)
(***************************************************************************)
HistoryLimit == 100
Absent == [absent |-> TRUE]
NoOp == [kind |-> "none", inst |-> NoInst, by |-> "none", phase |-> "none",
         cut |-> {}]
NoWS == "none"
NoVote == "none"
NoVotesCast == [a \in ActIds |-> [u \in Users |-> NoVote]]

\* The votes cast on the activities the document still holds; an activity
\* that is removed from the document takes the votes cast on it along.
VotesKept(cast, doc) ==
  [a \in ActIds |-> IF VoteDay(doc, a) = 0 THEN NoVotesCast[a] ELSE cast[a]]

CIInit ==
  /\ hydr = [i \in Insts |-> "cold"]
  /\ itineraryData = [i \in Insts |-> NullDoc]
  /\ stored = [i \in Insts |-> NullDoc]
  /\ collaborators = [i \in Insts |-> [u \in Users |-> Absent]]
  /\ editHistory = [i \in Insts |-> <<>>]
  /\ wsState = [w \in WS |-> "unused"]
  /\ wsInst = [w \in WS |-> NoInst]
  /\ wsKey = [w \in WS |-> "none"]
  /\ sessUser = [w \in WS |-> NoUser]
  /\ inbox = [w \in WS |-> <<>>]
  /\ sent = {}
  /\ lastOp = NoOp
  /\ now = 0
  /\ nMsgs = 0
  /\ votesCast = [k \in Keys |-> NoVotesCast]

\* An object per requester instead of per itinerary id.
RoutePerRequester(k, r) == r

\* handleCollabRoutes: env.CollaborativeItinerary.idFromName(itineraryId);
\* the instance depends on the key alone, not on who asks.
RouteCollab(k, r) == k

\* A constructor that starts the load without blocking the object's events.
CanRunEarly(i) == hydr[i] # "cold"

\* blockConcurrencyWhile in the constructor: no event is delivered to the
\* instance until the load has finished.
CanRun(i) == hydr[i] = "ready"

WSUsed == {w \in WS : wsState[w] # "unused"}
Sess(sess, i) == {w \in WS : wsInst[w] = i /\ sess[w] # NoUser}
\* what the last handler was, and the sessions its broadcast deleted
OpCut(kind, i, by, cut) ==
  [kind |-> kind, inst |-> i, by |-> by, phase |-> hydr[i], cut |-> cut]
Op(kind, i, by) == OpCut(kind, i, by, {})

Pruned(sess, st, i, exclude) ==
  {w \in Sess(sess, i) : w # exclude /\ st[w] = "broken"}
AfterBroadcast(sess, st, i, exclude) ==
  [w \in WS |-> IF w \in Pruned(sess, st, i, exclude) THEN NoUser ELSE sess[w]]
IsOpen(w) == wsState[w] \in {"open", "broken"}
Out(msg, to) == {msg @@ [to |-> w] : w \in to}

\* A broadcast that gives up at the first send that throws.
ReceiversUntilFailure(sess, st, i, exclude) ==
  IF \E w \in Sess(sess, i) : w # exclude /\ st[w] = "broken"
  THEN {}
  ELSE {w \in Sess(sess, i) : w # exclude /\ st[w] = "open"}

\* broadcast: every session but `exclude` whose readyState is OPEN is sent the
\* message; a send that throws deletes that session.
Receivers(sess, st, i, exclude) ==
  {w \in Sess(sess, i) : w # exclude /\ st[w] = "open"}

\* A transport that hands a later frame to the client ahead of earlier ones.
DeliverFirst(box, ts) == <<ts>> \o box

\* ws.send appends to what the client has received, in sending order.
Deliver(box, ts) == Append(box, ts)

\* The object is created on the first request routed to it.
Construct(i) ==
  /\ hydr[i] = "cold"
  /\ \E k \in Keys, r \in Requesters : RouteCollab(k, r) = i
  /\ hydr' = [hydr EXCEPT ![i] = "loading"]
  /\ lastOp' = Op("construct", i, NoWS)
  /\ sent' = {}
  /\ UNCHANGED <<itineraryData, stored, collaborators, editHistory, wsState,
                 wsInst, wsKey, sessUser, inbox, now, nMsgs, votesCast>>

\* The constructor's load: storage.get("itineraryData"); a load that throws
\* resets the object, the next request constructs it again.
Hydrate(i, ok) ==
  /\ hydr[i] = "loading"
  /\ IF ok
     THEN /\ itineraryData' = [itineraryData EXCEPT
                                 ![i] = IF stored[i] # NullDoc THEN stored[i] ELSE @]
          /\ hydr' = [hydr EXCEPT ![i] = "ready"]
     ELSE /\ hydr' = [hydr EXCEPT ![i] = "cold"]
          /\ UNCHANGED itineraryData
  /\ lastOp' = Op("hydrate", i, NoWS)
  /\ sent' = {}
  /\ UNCHANGED <<stored, collaborators, editHistory, wsState, wsInst, wsKey,
                 sessUser, inbox, now, nMsgs, votesCast>>

\* The platform evicts (hibernates) the idle object: its fields are lost and
\* re-initialised by the next construction; accepted WebSockets stay open.
Evict(i) ==
  /\ hydr[i] = "ready"
  /\ hydr' = [hydr EXCEPT ![i] = "cold"]
  /\ itineraryData' = [itineraryData EXCEPT ![i] = NullDoc]
  /\ collaborators' = [collaborators EXCEPT ![i] = [u \in Users |-> Absent]]
  /\ editHistory' = [editHistory EXCEPT ![i] = <<>>]
  /\ sessUser' = [w \in WS |-> IF wsInst[w] = i THEN NoUser ELSE sessUser[w]]
  /\ lastOp' = Op("evict", i, NoWS)
  /\ sent' = {}
  /\ UNCHANGED <<stored, wsState, wsInst, wsKey, inbox, now, nMsgs, votesCast>>

\* User ids are interchangeable: the first socket joins as the first user.
JoinUsers == IF WSUsed = {} THEN {"uA"} ELSE Users

\* fetch with Upgrade: websocket -> handleSession
Join(k, u) ==
  /\ WSUsed # WS
  /\ LET w == NextUnused(WSOrder, WSUsed)
         i == RouteCollab(k, w)
         st1 == [wsState EXCEPT ![w] = "open"]
         inst1 == [wsInst EXCEPT ![w] = i]
         sess1 == [sessUser EXCEPT ![w] = u]
         coll1 == [collaborators[i] EXCEPT ![u] = [cursor |-> NoCursor]]
         to == Receivers(sess1, st1, i, w)
         cut == Pruned(sess1, st1, i, w)
     IN /\ CanRun(i)
        /\ wsState' = st1
        /\ wsInst' = inst1
        /\ wsKey' = [wsKey EXCEPT ![w] = k]
        /\ collaborators' = [collaborators EXCEPT ![i] = coll1]
        /\ sessUser' = [x \in WS |-> IF x \in cut THEN NoUser ELSE sess1[x]]
        /\ sent' = {[type |-> "init", to |-> w, itinerary |-> itineraryData[i],
                     user |-> u, collaborators |-> coll1]}
                   \cup Out([type |-> "user-joined", user |-> u], to)
        /\ lastOp' = OpCut("join", i, w, cut)
  /\ UNCHANGED <<hydr, itineraryData, stored, editHistory, inbox, now, nMsgs,
                 votesCast>>

\* The socket stays OPEN but sending on it throws from now on.
BreakSocket(w) ==
  /\ wsState[w] = "open"
  /\ wsState' = [wsState EXCEPT ![w] = "broken"]
  /\ UNCHANGED <<hydr, itineraryData, stored, collaborators, editHistory,
                 wsInst, wsKey, sessUser, inbox, sent, lastOp, now,
                 nMsgs, votesCast>>

\* The transport closes the socket: readyState is no longer OPEN, the close
\* event is still to be delivered.
TransportClose(w) ==
  /\ IsOpen(w)
  /\ wsState' = [wsState EXCEPT ![w] = "closing"]
  /\ UNCHANGED <<hydr, itineraryData, stored, collaborators, editHistory,
                 wsInst, wsKey, sessUser, inbox, sent, lastOp, now,
                 nMsgs, votesCast>>

\* webSocketClose -> handleDisconnect
WebSocketClose(w) ==
  /\ wsState[w] = "closing"
  /\ LET i == wsInst[w]
         u == sessUser[w]
         sess1 == [sessUser EXCEPT ![w] = NoUser]
     IN /\ CanRun(i)
        /\ wsState' = [wsState EXCEPT ![w] = "closed"]
        /\ IF u # NoUser
           THEN /\ collaborators' = [collaborators EXCEPT ![i][u] = Absent]
                /\ sessUser' = AfterBroadcast(sess1, wsState, i, NoWS)
                /\ sent' = Out([type |-> "user-left", userId |-> u],
                               Receivers(sess1, wsState, i, NoWS))
                /\ lastOp' = OpCut("close", i, w,
                                   Pruned(sess1, wsState, i, NoWS))
           ELSE /\ sent' = {}
                /\ lastOp' = Op("close", i, w)
                /\ UNCHANGED <<collaborators, sessUser>>
  /\ UNCHANGED <<hydr, itineraryData, stored, editHistory, wsInst, wsKey,
                 inbox, now, nMsgs, votesCast>>

\* handleMessage: a WebSocket with no entry in this.sessions is ignored.
MessageUnregistered(w) ==
  /\ IsOpen(w)
  /\ sessUser[w] = NoUser
  /\ CanRun(wsInst[w])
  /\ sent' = {}
  /\ lastOp' = Op("dropped", wsInst[w], w)
  /\ UNCHANGED <<hydr, itineraryData, stored, collaborators, editHistory,
                 wsState, wsInst, wsKey, sessUser, inbox, now, nMsgs, votesCast>>

\* A webSocketMessage that closes the connection of a message it cannot handle.
MessageMalformedCloses(w) ==
  /\ IsOpen(w)
  /\ sessUser[w] # NoUser
  /\ CanRun(wsInst[w])
  /\ wsState' = [wsState EXCEPT ![w] = "closed"]
  /\ sessUser' = [sessUser EXCEPT ![w] = NoUser]
  /\ sent' = {}
  /\ lastOp' = Op("malformed", wsInst[w], w)
  /\ UNCHANGED <<hydr, itineraryData, stored, collaborators, editHistory,
                 wsInst, wsKey, inbox, now, nMsgs, votesCast>>

\* webSocketMessage: JSON.parse throws, or an `edit` carries no action and
\* handleEdit throws on its first statement; the error is caught and logged.
MessageMalformed(w) ==
  /\ IsOpen(w)
  /\ sessUser[w] # NoUser
  /\ CanRun(wsInst[w])
  /\ sent' = {}
  /\ lastOp' = Op("malformed", wsInst[w], w)
  /\ UNCHANGED <<hydr, itineraryData, stored, collaborators, editHistory,
                 wsState, wsInst, wsKey, sessUser, inbox, now, nMsgs, votesCast>>

\* slice(-n)
LastN(s, n) == IF Len(s) > n THEN SubSeq(s, Len(s) - n + 1, Len(s)) ELSE s

\* A handleEdit that does not await the put before it broadcasts.
EditBroadcastsAlways(putOk) == TRUE

\* handleEdit reaches its broadcast only when the awaited put has resolved.
EditBroadcasts(putOk) == putOk

\* A handleEdit that restores the document when the put rejects.
RolledBackAfterFailedPut(before, applied) == before

\* handleEdit has applied the action in place when the put rejects, and the
\* catch of webSocketMessage only logs: the field keeps the applied action.
KeptAfterFailedPut(before, applied) == applied

\* `edit` -> handleEdit
HandleEdit(w, action, putOk) ==
  /\ IsOpen(w)
  /\ sessUser[w] # NoUser
  /\ nMsgs < MaxMsgs
  /\ LET i == wsInst[w]
         u == sessUser[w]
         stamped == [type |-> action.type, data |-> action.data,
                     userId |-> u, timestamp |-> now + 1]
         doc1 == ApplyEdit(itineraryData[i], stamped)
         to == IF EditBroadcasts(putOk)
               THEN Receivers(sessUser, wsState, i, NoWS) ELSE {}
     IN /\ CanRun(i)
        /\ itineraryData' =
             [itineraryData EXCEPT
                ![i] = IF putOk THEN doc1
                       ELSE KeptAfterFailedPut(itineraryData[i], doc1)]
        /\ now' = now + 1
        /\ nMsgs' = nMsgs + 1
        /\ IF putOk
           THEN /\ stored' = [stored EXCEPT ![i] = doc1]
                /\ editHistory' = [editHistory EXCEPT
                                     ![i] = LastN(Append(@, stamped.timestamp), HistoryLimit)]
           ELSE UNCHANGED <<stored, editHistory>>
        /\ IF EditBroadcasts(putOk)
           THEN sessUser' = AfterBroadcast(sessUser, wsState, i, NoWS)
           ELSE UNCHANGED sessUser
        /\ sent' = Out([type |-> "edit", action |-> stamped, user |-> u], to)
        /\ inbox' = [x \in WS |-> IF x \in to
                                  THEN Deliver(inbox[x], stamped.timestamp)
                                  ELSE inbox[x]]
        /\ votesCast' = [votesCast EXCEPT ![wsKey[w]] = VotesKept(@, doc1)]
        /\ lastOp' = OpCut("edit", i, w,
                           IF EditBroadcasts(putOk)
                           THEN Pruned(sessUser, wsState, i, NoWS) ELSE {})
  /\ UNCHANGED <<hydr, collaborators, wsState, wsInst, wsKey>>

\* `cursor` -> handleCursorUpdate
HandleCursor(w, cursor) ==
  /\ IsOpen(w)
  /\ sessUser[w] # NoUser
  /\ nMsgs < MaxMsgs
  /\ nMsgs' = nMsgs + 1
  /\ LET i == wsInst[w]
         u == sessUser[w]
     IN /\ CanRun(i)
        /\ collaborators' = [collaborators EXCEPT
              ![i][u] = IF @ # Absent THEN [@ EXCEPT !.cursor = cursor] ELSE @]
        /\ sessUser' = AfterBroadcast(sessUser, wsState, i, NoWS)
        /\ sent' = Out([type |-> "cursor-update", userId |-> u, cursor |-> cursor],
                       Receivers(sessUser, wsState, i, NoWS))
        /\ lastOp' = OpCut("cursor", i, w,
                           Pruned(sessUser, wsState, i, NoWS))
  /\ UNCHANGED <<hydr, itineraryData, stored, editHistory, wsState, wsInst,
                 wsKey, inbox, now, votesCast>>

\* `typing` -> handleTypingIndicator
HandleTyping(w, activityId) ==
  /\ IsOpen(w)
  /\ sessUser[w] # NoUser
  /\ LET i == wsInst[w]
         u == sessUser[w]
     IN /\ CanRun(i)
        /\ sessUser' = AfterBroadcast(sessUser, wsState, i, NoWS)
        /\ sent' = Out([type |-> "typing", userId |-> u, activityId |-> activityId],
                       Receivers(sessUser, wsState, i, NoWS))
        /\ lastOp' = OpCut("typing", i, w,
                           Pruned(sessUser, wsState, i, NoWS))
  /\ UNCHANGED <<hydr, itineraryData, stored, collaborators, editHistory,
                 wsState, wsInst, wsKey, inbox, now, nMsgs, votesCast>>

\* `vote` -> handleVote: the vote is written into the in-memory document only.
HandleVote(w, activityId, vote) ==
  /\ IsOpen(w)
  /\ sessUser[w] # NoUser
  /\ nMsgs < MaxMsgs
  /\ LET i == wsInst[w]
         u == sessUser[w]
         doc1 == SetVote(itineraryData[i], activityId, u, vote)
     IN /\ CanRun(i)
        /\ nMsgs' = nMsgs + 1
        /\ IF VoteDay(itineraryData[i], activityId) = 0
           THEN /\ sent' = {}
                /\ lastOp' = Op("vote", i, w)
                /\ UNCHANGED <<itineraryData, sessUser, votesCast>>
           ELSE /\ itineraryData' = [itineraryData EXCEPT ![i] = doc1]
                /\ votesCast' = [votesCast EXCEPT
                                   ![wsKey[w]][activityId][u] = vote]
                /\ lastOp' = OpCut("vote", i, w,
                                   Pruned(sessUser, wsState, i, NoWS))
                /\ sessUser' = AfterBroadcast(sessUser, wsState, i, NoWS)
                /\ sent' = Out([type |-> "vote-update", activityId |-> activityId,
                                userId |-> u, vote |-> vote,
                                totalVotes |-> calculateVotes(VotesOf(doc1, activityId))],
                               Receivers(sessUser, wsState, i, NoWS))
  /\ UNCHANGED <<hydr, stored, collaborators, editHistory, wsState, wsInst,
                 wsKey, inbox, now>>

\* A chat handler that also records the message in the edit history.
HandleChatRecords(w, text) ==
  /\ IsOpen(w)
  /\ sessUser[w] # NoUser
  /\ LET i == wsInst[w]
         u == sessUser[w]
     IN /\ CanRun(i)
        /\ editHistory' = [editHistory EXCEPT ![i] = Append(@, now)]
        /\ sessUser' = AfterBroadcast(sessUser, wsState, i, NoWS)
        /\ sent' = Out([type |-> "chat-message", user |-> u, text |-> text],
                       Receivers(sessUser, wsState, i, NoWS))
        /\ lastOp' = OpCut("chat", i, w, Pruned(sessUser, wsState, i, NoWS))
  /\ UNCHANGED <<hydr, itineraryData, stored, collaborators,
                 wsState, wsInst, wsKey, inbox, now, nMsgs, votesCast>>

\* `chat` -> handleChat
HandleChat(w, text) ==
  /\ IsOpen(w)
  /\ sessUser[w] # NoUser
  /\ LET i == wsInst[w]
         u == sessUser[w]
     IN /\ CanRun(i)
        /\ sessUser' = AfterBroadcast(sessUser, wsState, i, NoWS)
        /\ sent' = Out([type |-> "chat-message", user |-> u, text |-> text],
                       Receivers(sessUser, wsState, i, NoWS))
        /\ lastOp' = OpCut("chat", i, w, Pruned(sessUser, wsState, i, NoWS))
  /\ UNCHANGED <<hydr, itineraryData, stored, collaborators, editHistory,
                 wsState, wsInst, wsKey, inbox, now, nMsgs, votesCast>>

\* The document GET .../state answers with, asked on behalf of r.
StateDoc(k, r) == itineraryData[RouteCollab(k, r)]

\* GET .../state
GetState(k, r) ==
  /\ LET i == RouteCollab(k, r)
     IN /\ CanRun(i)
        /\ sent' = {[type |-> "state", to |-> r, itinerary |-> StateDoc(k, r),
                     collaborators |-> collaborators[i],
                     activeUsers |-> Cardinality(Sess(sessUser, i))]}
        /\ lastOp' = Op("state", i, r)
  /\ UNCHANGED <<hydr, itineraryData, stored, collaborators, editHistory,
                 wsState, wsInst, wsKey, sessUser, inbox, now, nMsgs, votesCast>>

\* A create that keeps a document that is already there.
PostCreateKeepsExisting(k, r, doc, putOk) ==
  /\ LET i == RouteCollab(k, r)
         doc1 == IF itineraryData[i] = NullDoc THEN doc ELSE itineraryData[i]
     IN /\ CanRun(i)
        /\ itineraryData' = [itineraryData EXCEPT ![i] = doc1]
        /\ IF putOk
           THEN /\ stored' = [stored EXCEPT ![i] = doc1]
                /\ sent' = {[type |-> "created", to |-> r, success |-> TRUE]}
           ELSE /\ sent' = {}
                /\ UNCHANGED stored
        /\ votesCast' = [votesCast EXCEPT ![k] = NoVotesCast]
        /\ lastOp' = Op("create", i, r)
  /\ UNCHANGED <<hydr, collaborators, editHistory, wsState, wsInst, wsKey,
                 sessUser, inbox, now, nMsgs>>

\* POST .../create: the field is assigned before the put is awaited.
PostCreate(k, r, doc, putOk) ==
  /\ LET i == RouteCollab(k, r)
     IN /\ CanRun(i)
        /\ itineraryData' = [itineraryData EXCEPT ![i] = doc]
        /\ IF putOk
           THEN /\ stored' = [stored EXCEPT ![i] = doc]
                /\ sent' = {[type |-> "created", to |-> r, success |-> TRUE]}
           ELSE /\ sent' = {}
                /\ UNCHANGED stored
        /\ votesCast' = [votesCast EXCEPT ![k] = NoVotesCast]
        /\ lastOp' = Op("create", i, r)
  /\ UNCHANGED <<hydr, collaborators, editHistory, wsState, wsInst, wsKey,
                 sessUser, inbox, now, nMsgs>>

CIOnly == UNCHANGED <<nmVars, chVars, fold>>

CINext ==
  \/ \E i \in Insts : Construct(i) /\ CIOnly
  \/ \E i \in Insts, ok \in BOOLEAN : Hydrate(i, ok) /\ CIOnly
  \/ \E i \in Insts : Evict(i) /\ CIOnly
  \/ \E k \in Keys, u \in JoinUsers : Join(k, u) /\ CIOnly
  \/ \E w \in WS : BreakSocket(w) /\ CIOnly
  \/ \E w \in WS : TransportClose(w) /\ CIOnly
  \/ \E w \in WS : WebSocketClose(w) /\ CIOnly
  \/ \E w \in WS : MessageUnregistered(w) /\ CIOnly
  \/ \E w \in WS : MessageMalformed(w) /\ CIOnly
  \/ \E w \in WS, a \in EditInputs, ok \in BOOLEAN : HandleEdit(w, a, ok) /\ CIOnly
  \/ \E w \in WS, c \in Cursors : HandleCursor(w, c) /\ CIOnly
  \/ \E w \in WS : HandleTyping(w, "X") /\ CIOnly
  \/ \E w \in WS, a \in ActIds, v \in VoteValues : HandleVote(w, a, v) /\ CIOnly
  \/ \E w \in WS : HandleChat(w, "hi") /\ CIOnly
  \/ \E k \in Keys : GetState(k, Http) /\ CIOnly
  \/ \E k \in Keys, d \in DocInputs, ok \in BOOLEAN : PostCreate(k, Http, d, ok) /\ CIOnly

(***************************************************************************)
(* Chat (the conversation session): binding of the object to a             *)
(* conversation id, the in-memory message log and its copy in D1.          *)
(***************************************************************************)
\* pc of a request: "idle" | "query" (awaiting the SELECT of the reload) |
\* "validate" (awaiting validateToken) | "respond" | "done"
\* unread is a history field: the rows that were durable for the requested id
\* when the SELECT of this request's reload failed.
IdleReq == [pc |-> "idle", conversationId |-> NoConv, token |-> NoToken,
            unread |-> {}]
DoneReq == [pc |-> "done", conversationId |-> NoConv, token |-> NoToken,
            unread |-> {}]
\* pc of a turn: "idle" | "identity" | "header" | "stream" | "delete" |
\* "insert" | "title" | "done" | "failed" (no conversation id) |
\* "unauthorized"
IdleTurn == [pc |-> "idle", conversationId |-> NoConv, userId |-> NoUser,
             token |-> NoToken, rest |-> <<>>]
EndTurn(pc) == [IdleTurn EXCEPT !.pc = pc]
NoStorage == [conversationId |-> NoConv, userToken |-> NoToken, userId |-> NoUser]
NoConvRow == [exists |-> FALSE, user_id |-> NoUser, title |-> "none"]
NoTitleJob == [pending |-> FALSE, conversationId |-> NoConv, userId |-> NoUser]

UserMsg(text) == [role |-> "user", text |-> text]
Reply(text) == [role |-> "assistant", text |-> text]

\* JSON.stringify(message) and JSON.parse(row.content)
Stringify(m) == <<"json", m.role, m.text>>
Parse(content) == [role |-> content[2], text |-> content[3]]

MessageRow(cid, m, at) ==
  [conversation_id |-> cid, role |-> m.role, content |-> Stringify(m),
   created_at |-> at]

\* What D1 may hold for the conversations when the object is created: nothing,
\* or a conversation persisted earlier.
SeedRows ==
  << MessageRow("c1", UserMsg(-1), -2), MessageRow("c1", UserMsg(0), -1) >>
SeedRowsLong ==
  << MessageRow("c1", UserMsg(-3), -4), MessageRow("c1", UserMsg(-2), -3) >>
  \o SeedRows
Seeds == {<<>>, SeedRows}

\* The owner of the conversation persisted earlier: uA, who holds an unexpired
\* session, or uB, whose sessions have all expired.
SeedOwners == Users

ChInit(seed, owner) ==
  /\ messages = <<>>
  /\ chStore = NoStorage
  /\ dbMessages = seed
  /\ dbConvs = [c \in Convs |->
                  IF \E i \in 1..Len(seed) : seed[i].conversation_id = c
                  THEN [exists |-> TRUE, user_id |-> owner, title |-> Placeholder]
                  ELSE NoConvRow]
  /\ dbClock = 0
  /\ req = [r \in Reqs |-> IdleReq]
  /\ turn = [t \in Turns |-> IdleTurn]
  /\ titleJob = NoTitleJob

\* validateToken: the session table holds one unexpired session, tA of uA.
ValidateToken(token) == IF token = "tA" THEN "uA" ELSE NoUser
\* the latest unexpired session token of a user
LatestSession(u) == IF u = "uA" THEN "tA" ELSE NoToken

RowsOf(rows, cid) ==
  LET Mine(r) == r.conversation_id = cid IN SelectSeq(rows, Mine)

\* SELECT content FROM chat_messages WHERE conversation_id = ? ORDER BY
\* created_at ASC: every order of the rows that is sorted by created_at (SQL
\* leaves the order of rows with equal created_at open).
RECURSIVE SortedOrders(_)
SortedOrders(rs) ==
  IF rs = <<>> THEN {<<>>}
  ELSE LET first == {k \in 1..Len(rs) :
                       \A j \in 1..Len(rs) : rs[k].created_at <= rs[j].created_at}
       IN UNION {{<<rs[k].content>> \o o : o \in SortedOrders(RemoveAt(rs, k))} :
                 k \in first}

SelectMessages(rows, cid) == SortedOrders(RowsOf(rows, cid))

\* DELETE FROM chat_messages WHERE conversation_id = ?
DeleteMessages(rows, cid) ==
  LET Others(r) == r.conversation_id # cid IN SelectSeq(rows, Others)

\* The log the rows of a conversation stand for, in the order of insertion.
DurableLog(rows, cid) ==
  LET rs == RowsOf(rows, cid) IN [i \in 1..Len(rs) |-> Parse(rs[i].content)]

\* needsReload without the comparison of the requested id with the stored one.
NeedsReloadSkipRebind(storedConversationId, conversationId, log) ==
  storedConversationId = NoConv \/ Len(log) = 0

\* needsReload that reloads on every request.
NeedsReloadAlways(storedConversationId, conversationId, log) == TRUE

\* Chat.onRequest: the condition under which the log is reloaded from D1.
NeedsReload(storedConversationId, conversationId, log) ==
  \/ storedConversationId = NoConv
  \/ conversationId # storedConversationId
  \/ Len(log) = 0

\* onRequest after the reload: storage.put of the conversation id and token
SaveBinding(st, conversationId, token) ==
  [st EXCEPT !.conversationId = IF conversationId # NoConv THEN conversationId ELSE @,
             !.userToken = IF token # NoToken THEN token ELSE @]
AfterBinding(token) == IF token # NoToken THEN "validate" ELSE "respond"

Quiet ==
  /\ \A r \in Reqs : req[r].pc \in {"idle", "done"}
  /\ \A t \in Turns :
       turn[t].pc \in {"idle", "done", "failed", "unauthorized"}
  /\ ~titleJob.pending

\* onRequest up to its first await on D1.
ReqBegin(r, conversationId, token) ==
  /\ req[r].pc = "idle"
  /\ \A q \in Reqs : q < r => req[q].pc # "idle"
  /\ IF conversationId # NoConv
        /\ NeedsReload(chStore.conversationId, conversationId, messages)
     THEN /\ messages' = <<>>
          /\ req' = [req EXCEPT ![r] = [pc |-> "query",
                                        conversationId |-> conversationId,
                                        token |-> token, unread |-> {}]]
          /\ UNCHANGED chStore
     ELSE /\ chStore' = SaveBinding(chStore, conversationId, token)
          /\ req' = [req EXCEPT ![r] = [pc |-> AfterBinding(token),
                                        conversationId |-> conversationId,
                                        token |-> token, unread |-> {}]]
          /\ UNCHANGED messages
  /\ UNCHANGED <<dbMessages, dbConvs, dbClock, turn, titleJob>>

\* The SELECT of the reload settles; the binding and the token are stored.
ReqQuery(r, ok) ==
  /\ req[r].pc = "query"
  /\ \E res \in (IF ok THEN SelectMessages(dbMessages, req[r].conversationId)
                 ELSE {<<>>}) :
       messages' = IF Len(res) > 0
                   THEN [i \in 1..Len(res) |-> Parse(res[i])]
                   ELSE messages
  /\ chStore' = SaveBinding(chStore, req[r].conversationId, req[r].token)
  /\ req' = [req EXCEPT ![r].pc = AfterBinding(req[r].token),
                         ![r].unread =
                           IF ok THEN {}
                           ELSE Range(RowsOf(dbMessages, req[r].conversationId))]
  /\ UNCHANGED <<dbMessages, dbConvs, dbClock, turn, titleJob>>

\* validateToken settles; the user id of a valid token is stored.
ReqValidate(r) ==
  /\ req[r].pc = "validate"
  /\ chStore' = IF ValidateToken(req[r].token) # NoUser
                THEN [chStore EXCEPT !.userId = ValidateToken(req[r].token)]
                ELSE chStore
  /\ req' = [req EXCEPT ![r].pc = "respond"]
  /\ UNCHANGED <<messages, dbMessages, dbConvs, dbClock, turn, titleJob>>

\* get-messages / super.onRequest: the response is sent.
ReqRespond(r) ==
  /\ req[r].pc = "respond"
  /\ req' = [req EXCEPT ![r] = [DoneReq EXCEPT !.unread = req[r].unread]]
  /\ UNCHANGED <<messages, chStore, dbMessages, dbConvs, dbClock, turn, titleJob>>

\* notifyConversationUpdate: POST https://internal/notify on the user's
\* NotificationManager; the URL carries no userId parameter.
NotifyConversationUpdate(userId) == NotifyFetch(NoUser, userId, "list")

UserCount(log) == Cardinality({i \in 1..Len(log) : log[i].role = "user"})

\* A chat message arrives: the log becomes the client's list, which ends with
\* the new user message; onChatMessage reads its three storage keys.
TurnStart(t) ==
  /\ turn[t].pc = "idle"
  /\ \A s \in Turns : s < t => turn[s].pc # "idle"
  /\ messages' = Append(messages, UserMsg(t))
  /\ turn' = [turn EXCEPT ![t] =
                IF chStore.conversationId = NoConv
                THEN EndTurn("failed")
                ELSE [pc |-> "identity",
                      conversationId |-> chStore.conversationId,
                      userId |-> chStore.userId,
                      token |-> chStore.userToken,
                      rest |-> <<>>]]
  /\ UNCHANGED <<chStore, dbMessages, dbConvs, dbClock, req, titleJob>>

\* The user of the turn: the stored user id, else the stored token's user,
\* else the owner of the conversation's header row.
ResolveUser(userId, token, row) ==
  IF userId # NoUser THEN userId
  ELSE IF token # NoToken /\ ValidateToken(token) # NoUser THEN ValidateToken(token)
  ELSE IF row.exists THEN row.user_id
  ELSE NoUser

\* Identity resolution and the session check of onChatMessage.
TurnIdentity(t) ==
  /\ turn[t].pc = "identity"
  /\ LET u == ResolveUser(turn[t].userId, turn[t].token,
                          dbConvs[turn[t].conversationId])
         session == LatestSession(u)
     IN /\ chStore' =
             [chStore EXCEPT
                !.userId = IF turn[t].userId = NoUser /\ u # NoUser THEN u ELSE @,
                !.userToken = IF session # NoToken /\ turn[t].token # session
                              THEN session ELSE @]
        /\ turn' = [turn EXCEPT ![t] =
                      IF u = NoUser \/ session = NoToken
                      THEN EndTurn("unauthorized")
                      ELSE [@ EXCEPT !.pc = "header", !.userId = u,
                                     !.token = NoToken]]
  /\ UNCHANGED <<messages, dbMessages, dbConvs, dbClock, req, titleJob>>

\* The header row is created when absent, and the user's streams are notified.
TurnHeader(t) ==
  /\ turn[t].pc = "header"
  /\ turn' = [turn EXCEPT ![t].pc = "stream"]
  /\ IF dbConvs[turn[t].conversationId].exists
     THEN UNCHANGED <<dbConvs, nmVars>>
     ELSE /\ dbConvs' = [dbConvs EXCEPT ![turn[t].conversationId] =
                           [exists |-> TRUE, user_id |-> turn[t].userId,
                            title |-> Placeholder]]
          /\ NotifyConversationUpdate(turn[t].userId)
  /\ UNCHANGED <<messages, chStore, dbMessages, dbClock, req, titleJob>>

\* The response stream finishes: onFinish(event) appends the reply to the log.
TurnFinish(t) ==
  /\ turn[t].pc = "stream"
  /\ messages' = Append(messages, Reply(t))
  /\ turn' = [turn EXCEPT ![t].pc = "delete"]
  /\ UNCHANGED <<chStore, dbMessages, dbConvs, dbClock, req, titleJob>>

\* DELETE of the conversation's rows settles; the loop over this.messages
\* starts on the array the field holds now.
TurnDelete(t, ok) ==
  /\ turn[t].pc = "delete"
  /\ IF ok
     THEN /\ dbMessages' = DeleteMessages(dbMessages, turn[t].conversationId)
          /\ turn' = [turn EXCEPT ![t].pc = IF messages = <<>> THEN "title"
                                            ELSE "insert",
                                  ![t].rest = messages]
     ELSE /\ turn' = [turn EXCEPT ![t].pc = "title"]
          /\ UNCHANGED dbMessages
  /\ UNCHANGED <<messages, chStore, dbConvs, dbClock, req, titleJob>>

\* One INSERT of the loop settles; a rejected one ends the loop (catch).
TurnInsert(t, ok) ==
  /\ turn[t].pc = "insert"
  /\ IF ok
     THEN /\ dbMessages' = Append(dbMessages,
                                  MessageRow(turn[t].conversationId,
                                             Head(turn[t].rest), dbClock))
          /\ turn' = [turn EXCEPT ![t].rest = Tail(@),
                                  ![t].pc = IF Tail(turn[t].rest) = <<>>
                                            THEN "title" ELSE "insert"]
     ELSE /\ turn' = [turn EXCEPT ![t].pc = "title", ![t].rest = <<>>]
          /\ UNCHANGED dbMessages
  /\ UNCHANGED <<messages, chStore, dbConvs, dbClock, req, titleJob>>

\* A title check that does not look at the stored title.
StartsTitleJobAnyTitle(log, row, userId) ==
  /\ UserCount(log) >= 3
  /\ UserCount(log) <= 4
  /\ row.exists
  /\ userId # NoUser

\* The title check at the end of wrappedOnFinish.
StartsTitleJob(log, row, userId) ==
  /\ UserCount(log) >= 3
  /\ UserCount(log) <= 4
  /\ row.exists
  /\ row.title = Placeholder
  /\ userId # NoUser

TurnTitle(t) ==
  /\ turn[t].pc = "title"
  /\ titleJob' = IF StartsTitleJob(messages, dbConvs[turn[t].conversationId],
                                   turn[t].userId)
                 THEN [pending |-> TRUE,
                       conversationId |-> turn[t].conversationId,
                       userId |-> turn[t].userId]
                 ELSE titleJob
  /\ turn' = [turn EXCEPT ![t] = EndTurn("done")]
  /\ UNCHANGED <<messages, chStore, dbMessages, dbConvs, dbClock, req>>

\* generateConversationTitle: the generated title is written, the user's
\* streams are notified.
TitleJobFinish ==
  /\ titleJob.pending
  /\ dbConvs' = [dbConvs EXCEPT ![titleJob.conversationId] =
                   IF @.exists THEN [@ EXCEPT !.title = "generated"] ELSE @]
  /\ NotifyConversationUpdate(titleJob.userId)
  /\ titleJob' = NoTitleJob
  /\ UNCHANGED <<messages, chStore, dbMessages, dbClock, req, turn>>

\* POST /api/conversations/update-title: the authenticated user renames a
\* conversation of theirs (UPDATE ... WHERE id = ? AND user_id = ?).
UpdateTitle(c, token) ==
  /\ ValidateToken(token) # NoUser
  /\ dbConvs[c].exists
  /\ dbConvs[c].user_id = ValidateToken(token)
  /\ dbConvs[c].title # "renamed"
  /\ dbConvs' = [dbConvs EXCEPT ![c].title = "renamed"]
  /\ UNCHANGED <<messages, chStore, dbMessages, dbClock, req, turn, titleJob>>

\* The object is evicted while idle and constructed again: the constructor
\* empties the log, the storage keys survive.
ChatRestart ==
  /\ Quiet
  /\ messages # <<>>
  /\ messages' = <<>>
  /\ UNCHANGED <<chStore, dbMessages, dbConvs, dbClock, req, turn, titleJob>>

\* datetime('now') moves on by a second.
DbTick ==
  /\ dbClock < MaxClock
  /\ dbClock' = dbClock + 1
  /\ UNCHANGED <<messages, chStore, dbMessages, dbConvs, req, turn, titleJob>>

TokenInputs == Tokens \cup {NoToken}
ChOnly == UNCHANGED <<nmVars, ciVars, fold>>
ChAlso == UNCHANGED <<ciVars, fold>>

ChNext ==
  \/ \E r \in Reqs, c \in Convs \cup {NoConv}, k \in TokenInputs :
        ReqBegin(r, c, k) /\ ChOnly
  \/ \E r \in Reqs, ok \in BOOLEAN : ReqQuery(r, ok) /\ ChOnly
  \/ \E r \in Reqs : ReqValidate(r) /\ ChOnly
  \/ \E r \in Reqs : ReqRespond(r) /\ ChOnly
  \/ \E t \in Turns : TurnStart(t) /\ ChOnly
  \/ \E t \in Turns : TurnIdentity(t) /\ ChOnly
  \/ \E t \in Turns : TurnHeader(t) /\ ChAlso
  \/ \E t \in Turns : TurnFinish(t) /\ ChOnly
  \/ \E t \in Turns, ok \in BOOLEAN : TurnDelete(t, ok) /\ ChOnly
  \/ \E t \in Turns, ok \in BOOLEAN : TurnInsert(t, ok) /\ ChOnly
  \/ \E t \in Turns : TurnTitle(t) /\ ChOnly
  \/ TitleJobFinish /\ ChAlso
  \/ \E c \in Convs, k \in Tokens : UpdateTitle(c, k) /\ ChOnly
  \/ ChatRestart /\ ChOnly
  \/ DbTick /\ ChOnly

(***************************************************************************)
(* The edit operations on their own: documents in which day numbers and    *)
(* activity ids repeat, and the actions of handleEdit's switch applied to  *)
(* them one after the other.                                               *)
(***************************************************************************)
Named(id, title) == [id |-> id, title |-> title, votes |-> NoVotes]
DocRepeats ==
  [title |-> "t0",
   days |-> << [dayNumber |-> 1,
                activities |-> <<Named("X", "a"), Named("X", "b")>>],
               [dayNumber |-> 1, activities |-> <<Named("Y", "c")>>],
               [dayNumber |-> 2,
                activities |-> <<Named("Y", "d"), Named("X", "e")>>] >>]
FoldDocs == {Doc1, DocRepeats}
FoldActions ==
  { [type |-> "activity-add",
     data |-> [dayNumber |-> 1, activity |-> Named("Y", "n")]],
    [type |-> "activity-add",
     data |-> [dayNumber |-> 3, activity |-> Named("Z", "n")]],
    [type |-> "activity-update",
     data |-> [activityId |-> "X", updates |-> [title |-> "u"]]],
    [type |-> "activity-update",
     data |-> [activityId |-> "Q", updates |-> [title |-> "u"]]],
    [type |-> "activity-delete", data |-> [activityId |-> "X"]],
    [type |-> "activity-delete", data |-> [activityId |-> "Y"]],
    [type |-> "activity-delete", data |-> [activityId |-> "Q"]] }
NoAction == [type |-> "none", data |-> [none |-> TRUE]]
FoldStart(doc) == [before |-> doc, action |-> NoAction, after |-> doc, n |-> 0]

\* One case of the switch of handleEdit runs on the document.
FoldStep(a) ==
  /\ fold.n < MaxFold
  /\ fold' = [before |-> fold.after, action |-> a,
              after |-> ApplyEdit(fold.after, a), n |-> fold.n + 1]
  /\ UNCHANGED <<nmVars, ciVars, chVars>>

FoldNext == \E a \in FoldActions : FoldStep(a)

(***************************************************************************)
(* Specifications: each actor class runs on its own; the other classes'    *)
(* state stays as constructed.                                             *)
(***************************************************************************)
Init == NMInit /\ CIInit /\ ChInit(<<>>, "uA") /\ fold = FoldStart(Doc1)
ChatInit ==
  /\ NMInit
  /\ CIInit
  /\ \E seed \in Seeds, owner \in SeedOwners : ChInit(seed, owner)
  /\ fold = FoldStart(Doc1)
FoldInit ==
  /\ NMInit
  /\ CIInit
  /\ ChInit(<<>>, "uA")
  /\ \E doc \in FoldDocs : fold = FoldStart(doc)
Next == NMNext \/ CINext \/ ChNext \/ FoldNext
Spec == Init /\ [][Next]_vars
NotifySpec == Init /\ [][NMNext]_vars
CollabSpec == Init /\ [][CINext]_vars
ChatSpec == ChatInit /\ [][ChNext]_vars
FoldSpec == FoldInit /\ [][FoldNext]_vars

\* The conversation session of the user with a session, over conversations
\* of different lengths.
TitleInit ==
  /\ NMInit
  /\ CIInit
  /\ \E seed \in Seeds \cup {SeedRowsLong} : ChInit(seed, "uA")
  /\ fold = FoldStart(Doc1)
TitleSpec == TitleInit /\ [][ChNext]_vars

\* The conversation session together with the subscriptions of the users'
\* push streams (GET /api/conversations/stream), one stream at a time.
ChatNotifyNext ==
  \/ ChNext
  \/ \E u \in Users : SSEUsed = {} /\ Subscribe(u) /\ NMOnly
ChatNotifySpec == ChatInit /\ [][ChatNotifyNext]_vars

(***************************************************************************)
(* Properties                                                              *)
(***************************************************************************)
TheKey == CHOOSE k \in Keys : TRUE
TheInst == RouteCollab(TheKey, Http)
EditsSent == {m \in sent : m.type = "edit"}
OpKinds == {"join", "close", "dropped", "malformed", "edit", "cursor",
            "typing", "vote", "chat", "state", "create"}

\* The last edit handled was persisted: handleEdit appends to the history
\* only after the put has resolved.
LastEditPersisted(i) ==
  /\ editHistory[i] # <<>>
  /\ editHistory[i][Len(editHistory[i])] = now

\* C1: when an accepted edit has been persisted and broadcast, every
\* connection that is open on the itinerary key is sent an `edit` message,
\* the sender included.
C1_EditReachesEveryOpenConnection ==
  (lastOp.kind = "edit" /\ LastEditPersisted(lastOp.inst))
    => \A w \in WS :
         (wsState[w] = "open" /\ wsInst[w] = lastOp.inst)
           => \E m \in EditsSent : m.to = w

\* C2: whenever an `edit` broadcast has been sent, the stored document equals
\* the in-memory document the edit was applied to.
C2_PersistBeforeBroadcast ==
  (lastOp.kind = "edit" /\ EditsSent # {})
    => stored[lastOp.inst] = itineraryData[lastOp.inst]

C2_Witness ==
  /\ lastOp.kind = "edit"
  /\ EditsSent # {}
  /\ itineraryData[lastOp.inst] \notin {NullDoc, Doc1}
  /\ stored[lastOp.inst] = itineraryData[lastOp.inst]

StripVotes(doc) ==
  IF doc = NullDoc THEN doc
  ELSE [doc EXCEPT !.days =
          [d \in DOMAIN doc.days |->
             [doc.days[d] EXCEPT !.activities =
                [a \in DOMAIN doc.days[d].activities |->
                   [doc.days[d].activities[a] EXCEPT !.votes = NoVotes]]]]]

\* C7: the `init` snapshot sent to a connection that joins a key on which an
\* earlier connection was closed carries the stored document; stated for the
\* runs in which memory and storage differ in nothing but votes.
C7_ReconnectSnapshotIsStored ==
  (/\ lastOp.kind = "join"
   /\ \E x \in WS : wsState[x] = "closed" /\ wsKey[x] = wsKey[lastOp.by])
    => \A m \in sent :
         (m.type = "init" /\ StripVotes(m.itinerary) = stored[lastOp.inst])
           => m.itinerary = stored[lastOp.inst]

\* The open streams subscribed as u that the map still holds.
Registered(u) ==
  {c \in SSE : /\ sseState[c] = "open"
               /\ sseUser[c] = u
               /\ c \in Range(connections[u])}

\* C8: a /notify for a user starts a write on exactly the streams registered
\* under that user, and a payload frame is only ever written to a stream the
\* call in flight started a write on.
C8_FanOutIsolation ==
  [][/\ (notifyCall.phase = "idle" /\ notifyCall'.phase = "writing")
          => notifyCall'.attempted = Registered(notifyCall'.target)
     /\ \A c \in SSE :
          (Len(sseOut'[c]) > Len(sseOut[c])
             /\ sseOut'[c][Len(sseOut'[c])] \in Payloads)
            => /\ notifyCall.phase = "writing"
               /\ c \in notifyCall.attempted
               /\ sseUser[c] \in {notifyCall.target, NoUser}]_vars

C8_Witness ==
  /\ notifyCall.phase = "writing"
  /\ Cardinality(notifyCall.attempted) = 2
  /\ notifyCall.ok # {}
  /\ \E c \in SSE : /\ sseState[c] = "open"
                    /\ sseUser[c] \notin {notifyCall.target, NoUser}
                    /\ sseOut[c] = <<>>

\* C9: every operation of the object (upgrade, message, close, GET state,
\* POST create) ran when the constructor's load had finished.
C9_NoOperationBeforeHydration ==
  lastOp.kind \in OpKinds => lastOp.phase = "ready"

C9_Witness ==
  /\ lastOp.kind = "join"
  /\ lastOp.phase = "ready"
  /\ \E x \in WS : x # lastOp.by /\ wsState[x] = "open" /\ sessUser[x] = NoUser
  /\ itineraryData[lastOp.inst] # NullDoc
  /\ itineraryData[lastOp.inst] = stored[lastOp.inst]

\* C10: all connections of a key are held by one object, GET state answers
\* every requester with the same document, and an edit taken from any
\* connection is applied to that one document.
C10_SingleDocumentPerKey ==
  /\ [](\A k \in Keys :
          /\ \A w \in WS : wsKey[w] = k => wsInst[w] = RouteCollab(k, Http)
          /\ \A r1, r2 \in Requesters : StateDoc(k, r1) = StateDoc(k, r2))
  /\ [][\A k \in Keys :
          (now' = now + 1 /\ lastOp'.inst = RouteCollab(k, Http))
            => \E a \in EditInputs, u \in Users :
                 \A r \in Requesters :
                   StateDoc(k, r)' =
                     ApplyEdit(StateDoc(k, r),
                               [type |-> a.type, data |-> a.data,
                                userId |-> u, timestamp |-> now'])]_vars

C10_Witness ==
  /\ lastOp.kind = "state"
  /\ now = 2
  /\ \A w \in WS : wsState[w] = "open" /\ Len(inbox[w]) = 2
  /\ \E w, x \in WS : sessUser[w] = "uA" /\ sessUser[x] = "uB"
  /\ \E m \in sent : m.itinerary = itineraryData[TheInst]
                     /\ m.itinerary # NullDoc
                     /\ m.itinerary.title = "t1"
                     /\ Len(m.itinerary.days) = 2
                     /\ Len(m.itinerary.days[2].activities) = 1

\* The totals the votes cast so far on an activity amount to.
CastTotals(k, a) ==
  [v \in VoteValues |->
     Cardinality({u \in Users : votesCast[k][a][u] = v})]

\* C11: every `vote-update` broadcast reports, for its activity, the number
\* of distinct users whose latest vote on that activity is up, down and
\* neutral.
C11_VoteTotalsCountLatestVotes ==
  lastOp.kind = "vote"
    => \A m \in sent :
         m.type = "vote-update"
           => m.totalVotes = CastTotals(wsKey[lastOp.by], m.activityId)

\* C12: when the title job has written the generated title of a conversation
\* of user u, the notify request is accepted by u's NotificationManager and a
\* write of the conversation list is started on every stream subscribed as u.
C12_TitleUpdateNotifiesSubscribers ==
  [][(titleJob.pending /\ ~titleJob'.pending)
       => /\ lastNotify'.status # 400
          /\ Registered(titleJob.userId) # {}
               => /\ notifyCall'.phase = "writing"
                  /\ notifyCall'.attempted = Registered(titleJob.userId)]_vars

\* C13: on a join the `init` snapshot goes to the joining connection and to
\* no other, and `user-joined` goes to every other connection that is open on
\* the key and never to the joining connection.
C13_JoinInitAndUserJoined ==
  lastOp.kind = "join"
    => /\ \E m \in sent : m.type = "init" /\ m.to = lastOp.by
       /\ \A m \in sent : m.type = "init" => m.to = lastOp.by
       /\ \A m \in sent : m.type = "user-joined" => m.to # lastOp.by
       /\ \A w \in WS :
            (w # lastOp.by /\ wsState[w] = "open" /\ wsInst[w] = lastOp.inst)
              => \E m \in sent : m.type = "user-joined" /\ m.to = w

\* C14: every presence entry belongs to a connection that is open and in the
\* registry (a connection the transport has closed counts until its close
\* event has been handled), and what is stored is a document, never presence.
C14_PresenceOnlyForRegisteredConnections ==
  /\ \A i \in Insts, u \in Users :
       collaborators[i][u] # Absent
         => \E w \in WS : /\ wsInst[w] = i
                          /\ sessUser[w] = u
                          /\ wsState[w] \in {"open", "broken", "closing"}
  /\ \A i \in Insts : "collaborators" \notin DOMAIN stored[i]

BroadcastTypes == {"user-joined", "user-left", "edit", "cursor-update",
                   "typing", "vote-update", "chat-message"}

\* C15: when a send fails during a broadcast, the failing connection is
\* deleted from the registry, no other connection of the registry is deleted
\* (the one whose close is being handled aside), and every connection of
\* the registry that is open and not excluded is sent the message.
C15_BroadcastFailureIsolated ==
  [][\A w \in WS :
       (sessUser[w] # NoUser /\ w \in lastOp'.cut)
         => /\ wsState[w] = "broken"
            /\ sessUser'[w] = NoUser
            /\ \A x \in WS \ lastOp'.cut :
                 (/\ sessUser[x] # NoUser
                  /\ ~(lastOp'.kind = "close" /\ lastOp'.by = x))
                   => sessUser'[x] = sessUser[x]
            /\ \A x \in WS :
                 (/\ sessUser'[x] # NoUser
                  /\ wsState'[x] = "open"
                  /\ wsInst'[x] = lastOp'.inst
                  /\ ~(lastOp'.kind = "join" /\ lastOp'.by = x))
                   => \E m \in sent' : m.to = x /\ m.type \in BroadcastTypes]_vars

C15_Witness ==
  /\ lastOp.cut # {}
  /\ lastOp.kind = "chat"
  /\ \E m \in sent : /\ m.type = "chat-message"
                      /\ m.to \notin lastOp.cut
                      /\ wsState[m.to] = "open"
                      /\ sessUser[m.to] # NoUser

\* C16: a write of /notify that fails takes exactly its own writer out of
\* the user's array; when the call returns it answers 200, and every writer
\* it started on that is still open and sound has the event and is still in
\* the array.
C16_NotifyFailureIsolated ==
  [][/\ \A c \in SSE :
          (/\ notifyCall.phase = "writing"
           /\ c \in notifyCall.pending
           /\ c \notin notifyCall'.pending
           /\ c \notin notifyCall'.ok)
            => /\ Range(connections'[notifyCall.target])
                    = Range(connections[notifyCall.target]) \ {c}
               /\ \A u \in Users \ {notifyCall.target} :
                    connections'[u] = connections[u]
     /\ (notifyCall.phase = "writing" /\ notifyCall'.phase = "idle")
          => /\ lastNotify'.status = 200
             /\ \A c \in notifyCall.attempted :
                  (sseState[c] = "open" /\ ~sseBroken[c])
                    => /\ c \in notifyCall.ok
                       /\ \E k \in 1..Len(sseOut[c]) :
                            sseOut[c][k] = notifyCall.data
                       /\ c \in Range(connections[notifyCall.target])]_vars

C16_Witness ==
  /\ lastNotify.status = 200
  /\ lastNotify.delivered = 1
  /\ notifyCall.phase = "idle"
  /\ \E c, d \in SSE :
       /\ sseState[c] = "open" /\ sseBroken[c] /\ sseOut[c] = <<>>
       /\ c \notin Range(connections[sseUser[c]])
       /\ sseUser[d] = sseUser[c] /\ sseState[d] = "open" /\ ~sseBroken[d]
       /\ d \in Range(connections[sseUser[d]])
       /\ sseOut[d] = <<"p1">>

\* C17: the count a /notify call answers with is the number of writers the
\* call wrote the event to.
C17_NotifyCountIsDeliveries ==
  lastNotify.status = 200 => lastNotify.sent = lastNotify.delivered

C19_HydrationFailureSurfaces ==
  [][/\ \A r \in Reqs :
          (/\ req[r].pc = "query"
           /\ req'[r].pc \in {"validate", "respond"}
           /\ RowsOf(dbMessages, req[r].conversationId) # <<>>)
            => \E res \in SelectMessages(dbMessages, req[r].conversationId) :
                 messages' = [k \in 1..Len(res) |-> Parse(res[k])]
     /\ \A i \in Insts :
          (/\ hydr[i] = "loading"
           /\ lastOp'.kind = "hydrate"
           /\ lastOp'.inst = i
           /\ hydr'[i] # "ready")
            => /\ hydr'[i] = "cold"
               /\ itineraryData'[i] = NullDoc
               /\ sent' = {}]_vars

\* C20: a turn is rejected as unauthorized only when no source of identity
\* yields a user: not the user id stored from the token of a request, not
\* the stored token, not the owner of the conversation's header row.
C20_UnauthorizedOnlyWithoutIdentity ==
  [][\A t \in Turns :
       (turn[t].pc = "identity" /\ turn'[t].pc = "unauthorized")
         => /\ turn[t].userId = NoUser
            /\ ValidateToken(turn[t].token) = NoUser
            /\ ~dbConvs[turn[t].conversationId].exists]_vars

\* C21: a turn that is rejected as unauthorized leaves the binding as it was
\* and leaves none of its own messages in the log.
C21_IdentityFailureLeavesActorUnchanged ==
  [][\A t \in Turns :
       (turn[t].pc = "identity" /\ turn'[t].pc = "unauthorized")
         => /\ chStore'.conversationId = chStore.conversationId
            /\ UserMsg(t) \notin Range(messages')]_vars

\* C22: an edit whose put rejects (the edit is not appended to the history)
\* leaves the stored document and the connections as they were, broadcasts
\* nothing, and keeps the applied action in the in-memory document.
C22_FailedPersistKeepsEditInMemory ==
  [][(now' = now + 1 /\ editHistory' = editHistory)
       => /\ stored' = stored
          /\ wsState' = wsState
          /\ sessUser' = sessUser
          /\ sent' = {}
          /\ \E a \in EditInputs :
               itineraryData'[lastOp'.inst] =
                 ApplyEdit(itineraryData[lastOp'.inst],
                           [type |-> a.type, data |-> a.data,
                            userId |-> sessUser[lastOp'.by],
                            timestamp |-> now'])
          /\ (itineraryData[lastOp'.inst] = Doc1
                => itineraryData'[lastOp'.inst] # Doc1)]_vars

C22_Witness ==
  /\ lastOp.kind = "edit"
  /\ now = 1
  /\ editHistory[lastOp.inst] = <<>>
  /\ sent = {}
  /\ stored[lastOp.inst] = Doc1
  /\ itineraryData[lastOp.inst] \notin {NullDoc, Doc1}
  /\ wsState[lastOp.by] = "open"
  /\ sessUser[lastOp.by] # NoUser

CreateSucceeded ==
  /\ lastOp.kind = "create"
  /\ \E m \in sent : m.type = "created" /\ m.success

\* C24: after a POST create that succeeded, the in-memory document and the
\* stored document are the posted one, whatever was there before, and a GET
\* state that follows answers with it.
C24_CreateOverwrites ==
  /\ [](CreateSucceeded
          => \E d \in DocInputs : /\ itineraryData[lastOp.inst] = d
                                  /\ stored[lastOp.inst] = d)
  /\ [][(CreateSucceeded /\ lastOp'.kind = "state")
          => \E d \in DocInputs :
               \A m \in sent' : m.type = "state" /\ m.itinerary = d]_vars

C24_Witness ==
  /\ lastOp.kind = "state"
  /\ editHistory[lastOp.inst] # <<>>
  /\ stored[lastOp.inst] = Doc1
  /\ \E m \in sent : m.type = "state" /\ m.itinerary = Doc1

\* C25: the history never holds more than 100 entries, is empty while the
\* object is not constructed and loaded, and is not part of what is stored;
\* every edit the object applies becomes the last entry, in front of the
\* latest entries there were.
C25_HistoryIsLatestAppliedEdits ==
  /\ [](\A i \in Insts :
          /\ Len(editHistory[i]) <= HistoryLimit
          /\ hydr[i] \in {"cold", "loading"} => editHistory[i] = <<>>
          /\ "editHistory" \notin DOMAIN stored[i])
  /\ [][now' = now + 1
          => LET h == editHistory[lastOp'.inst]
                 h1 == editHistory'[lastOp'.inst]
             IN /\ h1 # <<>>
                /\ h1[Len(h1)] = now'
                /\ Len(h1) = IF Len(h) < HistoryLimit THEN Len(h) + 1
                              ELSE HistoryLimit
                /\ \A k \in 1..(Len(h1) - 1) :
                     h1[k] = h[k + Len(h) + 1 - Len(h1)]]_vars

Stamps == [userId : Users \cup {NoUser}, timestamp : 0..(MaxMsgs + 1)]

C27_RecordsBelongToTheirConversation ==
  \A i \in DOMAIN dbMessages :
    \A c \in Convs \ {dbMessages[i].conversation_id} :
      \A j \in DOMAIN DurableLog(SeedRows, c) :
        Parse(dbMessages[i].content) # DurableLog(SeedRows, c)[j]

\* C28: when a turn's save for a conversation id ends, every Message Record
\* that was durable for that id when the query of a reload failed is durable
\* still: the save does not delete it without inserting it again.
C28_FailedReloadLosesNothing ==
  [][\A t \in Turns :
       (turn[t].pc \in {"delete", "insert"} /\ turn'[t].pc = "title")
         => \A r \in Reqs :
              \A row \in req[r].unread :
                row.conversation_id = turn[t].conversationId
                  => \E k \in DOMAIN dbMessages' :
                       /\ dbMessages'[k].conversation_id = row.conversation_id
                       /\ dbMessages'[k].content = row.content]_vars

\* C29: after a cursor message, the sender's presence entry holds the
\* cursor, every other open connection of the object has been sent
\* cursor-update, and the sending connection has been sent none.
C29_CursorUpdateToOthersOnly ==
  lastOp.kind = "cursor"
    => /\ \A m \in sent :
            /\ m.type = "cursor-update"
            /\ m.to # lastOp.by
            /\ collaborators[lastOp.inst][m.userId] # Absent
            /\ collaborators[lastOp.inst][m.userId].cursor = m.cursor
       /\ \A w \in WS :
            (w # lastOp.by /\ wsState[w] = "open" /\ wsInst[w] = lastOp.inst)
              => \E m \in sent : m.to = w

\* C30: an itinerary-update leaves the days list as it was, sets every other
\* field of its patch in the document, and leaves the fields the patch does
\* not name as they were.
C30_ItineraryUpdateKeepsDays ==
  [][now' = now + 1
       => LET doc == itineraryData[lastOp'.inst]
              doc1 == itineraryData'[lastOp'.inst]
          IN \A a \in EditInputs :
               (/\ a.type = "itinerary-update"
                /\ doc # NullDoc
                /\ doc1 = updateItinerary(doc, a.data))
                 => /\ doc1.days = doc.days
                    /\ \A f \in (DOMAIN a.data) \ {"days"} : doc1[f] = a.data[f]
                    /\ \A f \in (DOMAIN doc) \ (DOMAIN a.data) :
                         doc1[f] = doc[f]]_vars

\* C31: every connection that has joined and has not closed is in the
\* registry of its object and its user has a presence entry there.
C31_JoinedConnectionsStayRegistered ==
  \A w \in WS :
    wsState[w] = "open"
      => /\ sessUser[w] # NoUser
         /\ collaborators[wsInst[w]][sessUser[w]] # Absent

\* C32: a request for a conversation id that reaches the actor while the log
\* is empty reloads, also when the id equals the stored binding; and when
\* the reload of the bound id settles with no other request and no turn in
\* progress, the log is the Message Records of that id, in their order.
C32_RestartReloadsDurableLog ==
  [][\A r \in Reqs :
       /\ (/\ req[r].pc = "idle"
           /\ req'[r].pc # "idle"
           /\ req'[r].conversationId # NoConv
           /\ messages = <<>>)
            => req'[r].pc = "query"
       /\ (/\ req[r].pc = "query"
           /\ req'[r].pc # "query"
           /\ req[r].conversationId = chStore.conversationId
           /\ \A q \in Reqs \ {r} : req[q].pc \in {"idle", "done"}
           /\ \A t \in Turns :
                turn[t].pc \in {"idle", "done", "failed", "unauthorized"})
            => messages' = DurableLog(dbMessages, req[r].conversationId)]_vars

Least(S) == CHOOSE x \in S : \A y \in S : x <= y
DaysWith(doc, id) ==
  {d \in DOMAIN doc.days :
     \E j \in DOMAIN doc.days[d].activities : doc.days[d].activities[j].id = id}
Places(acts, id) == {j \in DOMAIN acts : acts[j].id = id}

\* C33: an activity action leaves the title, the number of days and the day
\* numbers as they were and changes the activity list of at most one day:
\* add appends to the first day with the day number; update merges the
\* updates into, and delete removes, the first activity with the id in the
\* first day that holds one; with no match the document is unchanged.
C33_ActivityActionsFirstMatch ==
  LET b == fold.before
      a == fold.after
      act == fold.action
  IN fold.n > 0
       => /\ a.title = b.title
          /\ Len(a.days) = Len(b.days)
          /\ \A d \in DOMAIN b.days : a.days[d].dayNumber = b.days[d].dayNumber
          /\ Cardinality({d \in DOMAIN b.days :
                            a.days[d].activities # b.days[d].activities}) <= 1
          /\ act.type = "activity-add"
               => LET ds == {d \in DOMAIN b.days :
                               b.days[d].dayNumber = act.data.dayNumber}
                  IN IF ds = {} THEN a = b
                     ELSE \A d \in DOMAIN b.days :
                            a.days[d].activities =
                              IF d = Least(ds)
                              THEN Append(b.days[d].activities, act.data.activity)
                              ELSE b.days[d].activities
          /\ act.type \in {"activity-update", "activity-delete"}
               => LET id == act.data.activityId
                      ds == DaysWith(b, id)
                  IN IF ds = {} THEN a = b
                     ELSE LET acts == b.days[Least(ds)].activities
                              j == Least(Places(acts, id))
                          IN \A d \in DOMAIN b.days :
                               a.days[d].activities =
                                 IF d # Least(ds) THEN b.days[d].activities
                                 ELSE IF act.type = "activity-update"
                                 THEN [acts EXCEPT
                                         ![j] = [f \in DOMAIN acts[j] \cup
                                                       DOMAIN act.data.updates |->
                                                   IF f \in DOMAIN act.data.updates
                                                   THEN act.data.updates[f]
                                                   ELSE acts[j][f]]]
                                 ELSE SubSeq(acts, 1, j - 1) \o
                                      SubSeq(acts, j + 1, Len(acts))

C33_Witness ==
  /\ fold.n > 1
  /\ fold.action.type = "activity-delete"
  /\ Cardinality(DaysWith(fold.before, fold.action.data.activityId)) = 2
  /\ Cardinality(DaysWith(fold.after, fold.action.data.activityId)) = 2
  /\ fold.after # fold.before

\* C34: a reload whose query succeeds leaves the log equal to the Message
\* Records of the conversation id in the order in which the save inserted
\* them, also when records share a creation time.
C34_ReloadReturnsPersistedOrder ==
  [][\A r \in Reqs :
       (/\ req[r].pc = "query"
        /\ req'[r].pc # "query"
        /\ req'[r].unread = {}
        /\ RowsOf(dbMessages, req[r].conversationId) # <<>>)
         => messages' = DurableLog(dbMessages, req[r].conversationId)]_vars

\* C35: when the background title generation writes, a title that is no
\* longer the placeholder is kept.
C35_GenerationKeepsChangedTitle ==
  [][(/\ titleJob.pending
      /\ ~titleJob'.pending
      /\ dbConvs[titleJob.conversationId].exists
      /\ dbConvs[titleJob.conversationId].title # Placeholder)
       => dbConvs'[titleJob.conversationId].title =
            dbConvs[titleJob.conversationId].title]_vars

\* C36: a turn that starts with a token in storage (the token of the latest
\* request that supplied one) and a user id left there by an earlier request
\* proceeds only under the user that the token resolves to.
C36_TurnIdentityFollowsLatestToken ==
  [][\A t \in Turns :
       (/\ turn[t].pc = "identity"
        /\ turn'[t].pc = "header"
        /\ turn[t].token # NoToken
        /\ turn[t].userId # NoUser)
         => turn'[t].userId = ValidateToken(turn[t].token)]_vars

\* C37: the title generation starts only at a turn completion at which the
\* log holds 3 or 4 user messages and the header row of the conversation
\* still carries the placeholder title.
C37_TitleJobOnlyAtThreeOrFour ==
  [][(~titleJob.pending /\ titleJob'.pending)
       => /\ UserCount(messages) \in 3..4
          /\ dbConvs[titleJob'.conversationId].exists
          /\ dbConvs[titleJob'.conversationId].title = Placeholder
          /\ \E t \in Turns : turn[t].pc = "title" /\ turn'[t].pc = "done"]_vars

C37_Witness ==
  /\ titleJob.pending
  /\ UserCount(messages) = 3
  /\ dbConvs[titleJob.conversationId].title = Placeholder

\* A turn completed with five user messages in the log, or with a renamed
\* conversation, and no generation was started.
TitleNotStartedAtFive ==
  /\ ~titleJob.pending
  /\ \E t \in Turns : turn[t].pc = "done"
  /\ UserCount(messages) = 5
  /\ \A c \in Convs : dbConvs[c].title # "generated"

\* C38: handling a typing or a chat message leaves the in-memory document,
\* the presence map, the edit history and the stored document as they were,
\* and what it sends are typing or chat-message broadcasts only.
C38_TypingAndChatOnlyBroadcast ==
  [][lastOp'.kind \in {"typing", "chat"}
       => /\ itineraryData' = itineraryData
          /\ collaborators' = collaborators
          /\ editHistory' = editHistory
          /\ stored' = stored
          /\ \A m \in sent' :
               m.type = IF lastOp'.kind = "typing" THEN "typing"
                        ELSE "chat-message"]_vars

C38_Witness ==
  /\ lastOp.kind = "chat"
  /\ itineraryData[lastOp.inst] # NullDoc
  /\ editHistory[lastOp.inst] # <<>>
  /\ \E m \in sent : m.type = "chat-message" /\ m.to # lastOp.by

\* C39: while no request is in progress (and no turn has run, so that the
\* durable records are those persisted earlier), every message of the log
\* that was loaded from the records of a conversation id belongs to the id
\* the actor is bound to.
C39_LogBelongsToBinding ==
  (/\ \A r \in Reqs : req[r].pc \in {"idle", "done"}
   /\ \A t \in Turns : turn[t].pc = "idle")
    => \A k \in DOMAIN messages :
         \A c \in Convs :
           (\E j \in DOMAIN DurableLog(dbMessages, c) :
              DurableLog(dbMessages, c)[j] = messages[k])
             => chStore.conversationId = c

\* C4: when the save at the end of a turn completes, the rows of the turn's
\* conversation are exactly the in-memory log.
C4_DurableEqualsLogAtTurnEnd ==
  [][\A t \in Turns :
       (turn[t].pc \in {"delete", "insert"} /\ turn'[t].pc = "title")
         => DurableLog(dbMessages', turn[t].conversationId) = messages']_vars

\* C5: a request for an id other than the stored binding clears the log and
\* awaits the query for that id before anything else, and the stored binding
\* changes only when such a query has settled.
C5_RebindReloads ==
  [][/\ \A r \in Reqs :
          (/\ req[r].pc = "idle"
           /\ req'[r].pc # "idle"
           /\ chStore.conversationId # NoConv
           /\ req'[r].conversationId \notin {NoConv, chStore.conversationId})
            => /\ messages' = <<>>
               /\ req'[r].pc = "query"
               /\ chStore' = chStore
     /\ (chStore.conversationId # NoConv
           /\ chStore'.conversationId # chStore.conversationId)
          => \E r \in Reqs : /\ req[r].pc = "query"
                             /\ req[r].conversationId = chStore'.conversationId
                             /\ req'[r].pc # "query"]_vars

C5_Witness ==
  /\ chStore.conversationId = "c1"
  /\ RowsOf(dbMessages, "c1") # <<>>
  /\ messages = <<>>
  /\ req[1].pc = "done"
  /\ req[2].pc = "query"
  /\ req[2].conversationId = "c2"
  /\ \A t \in Turns : turn[t].pc = "idle"

====
